---- MODULE Spec2Model ----
(***************************************************************************)
(* A model of tensor2tensor/models/research/next_frame.py: one forward     *)
(* evaluation of NextFrameStochastic.body (scan sequence driver, scheduled *)
(* sampling, beta schedule, KL accounting) and of the compositing done by  *)
(* construct_predictive_tower.  Tensors are symbolic terms; the batch      *)
(* dimension is kept, so every tensor is a function over Batch.            *)
(***************************************************************************)
EXTENDS Integers, Sequences, FiniteSets, TLC

VARIABLES
  model,          \* the registered model class whose construct_model runs
  hparams,        \* self.hparams (fixed at construction)
  posterior_kl,   \* KL divergence of the posterior the latent tower's weights give
  global_step,    \* tf.train.get_global_step(): [present, value]
  pc,             \* position of body() / the exception it ended with
  ss_var,         \* scheduled_sampling_func_var bound into ss_func
  latent,         \* the latent sample used by the towers (or None)
  latent_means,   \* list of posterior (mean, std) pairs returned by construct_model
  prev_outputs,   \* the tuple threaded through process_single_frame
  scan_i,         \* index of the next element tf.scan feeds to the step
  gen_images,     \* generated frames, time-major
  gen_rewards,    \* generated rewards, time-major
  call,           \* the last process_single_frame invocation (its bindings)
  beta,           \* KL weight computed by body
  extra_loss,     \* beta * kl_loss
  predictions,    \* gen_images[video_num_input_frames-1:]
  reward_pred,    \* gen_rewards[video_num_input_frames-1:]
  tower           \* one evaluation of construct_predictive_tower's compositing

vars == <<model, hparams, posterior_kl, global_step, pc, ss_var, latent, latent_means, prev_outputs,
          scan_i, gen_images, gen_rewards, call, beta, extra_loss, predictions,
          reward_pred, tower>>

bodyVars == <<model, hparams, posterior_kl, global_step, pc, ss_var, latent, latent_means,
              prev_outputs, scan_i, gen_images, gen_rewards, call, beta,
              extra_loss, predictions, reward_pred>>

-----------------------------------------------------------------------------
(* Bounds of the model *)

MaxInputFrames == 2
MaxTargetFrames == 2
BatchSize == 2
MaxStep == 2
MaxMasks == 2
MaxKL == 2
MaxExp == 3
MaxSide == 5

(* Program constants *)

_LARGE_STEP_NUMBER == 100000
NumMainLstm == 7
NumRewardLstm == 5

Batch == 1..BatchSize

-----------------------------------------------------------------------------
(* Exact rational arithmetic; [n |-> 0, d |-> 0] is the float NaN, *)
(* [n |-> 1, d |-> 0] is +inf.                                     *)

Rat(n, d) == [n |-> n, d |-> d]
NaN == Rat(0, 0)
IsNaN(a) == a.d = 0 /\ a.n = 0
IsFinite(a) == a.d # 0
Sgn(x) == IF x > 0 THEN 1 ELSE IF x < 0 THEN -1 ELSE 0
Norm(a) == IF a.d < 0 THEN Rat(-a.n, -a.d) ELSE a
RSub(a, b) ==
  IF IsNaN(a) \/ IsNaN(b) THEN NaN
  ELSE IF a.d = 0 \/ b.d = 0
       THEN (IF a.d = 0 /\ b.d = 0
             THEN (IF Sgn(a.n) = Sgn(b.n) THEN NaN ELSE Rat(Sgn(a.n), 0))
             ELSE IF a.d = 0 THEN Rat(Sgn(a.n), 0) ELSE Rat(-Sgn(b.n), 0))
       ELSE Rat(a.n * b.d - b.n * a.d, a.d * b.d)
RMul(a, b) ==
  IF IsNaN(a) \/ IsNaN(b) THEN NaN
  ELSE IF a.d = 0 \/ b.d = 0
       THEN (IF a.n = 0 \/ b.n = 0 THEN NaN ELSE Rat(Sgn(a.n) * Sgn(b.n), 0))
       ELSE Rat(a.n * b.n, a.d * b.d)
RDiv(a, b) ==
  IF IsNaN(a) \/ IsNaN(b) THEN NaN
  ELSE IF b.d = 0 THEN (IF a.d = 0 THEN NaN ELSE Rat(0, 1))
  ELSE IF b.n = 0 THEN (IF a.n = 0 THEN NaN ELSE Rat(Sgn(a.n), 0))
  ELSE IF a.d = 0 THEN Rat(Sgn(a.n) * Sgn(b.n) * Sgn(b.d), 0)
  ELSE Norm(Rat(a.n * b.d, a.d * b.n))
REq(a, b) ==
  /\ ~IsNaN(a) /\ ~IsNaN(b)
  /\ IF a.d = 0 \/ b.d = 0 THEN a.d = 0 /\ b.d = 0 /\ Sgn(a.n) = Sgn(b.n)
     ELSE a.n * b.d = b.n * a.d
RLeq(a, b) ==
  /\ IsFinite(a) /\ IsFinite(b)
  /\ a.n * b.d <= b.n * a.d
Int2Rat(i) == Rat(i, 1)
RAdd(a, b) == RSub(a, RSub(Int2Rat(0), b))
RECURSIVE RSum(_)
RSum(seq) == IF seq = << >> THEN Int2Rat(0) ELSE RAdd(Head(seq), RSum(Tail(seq)))

-----------------------------------------------------------------------------
(* Symbolic tensors *)

None == [k |-> "None"]
Tensor(v) == [e \in Batch |-> v]
Image(t) == Tensor([k |-> "image", t |-> t])
Reward(t) == Tensor([k |-> "reward", t |-> t])
Action(t) == Tensor([k |-> "action", t |-> t])

ImageAt(images, t) == images[t + 1]          \* Python index t of a time-major list

-----------------------------------------------------------------------------
(* Hyperparameters and inputs *)

Modes == {"train", "eval"}
ModelOptions == {"CDNA", "DNA", "plain"}
SamplingModes == {"prob", "count"}
Schedules == {"constant", "linear_anneal"}
DecaySteps == {1, 2}
SamplingK == {1, 2}
SecondStages == {0, 1}
AnnealEnds == {0, 1, 2}
Multipliers == {2}

HParams ==
  [mode : Modes,
   video_num_input_frames : 1..MaxInputFrames,
   video_num_target_frames : 1..MaxTargetFrames,
   model_options : ModelOptions,
   num_masks : 1..MaxMasks,
   stochastic_model : BOOLEAN,
   reward_prediction : BOOLEAN,
   scheduled_sampling_mode : SamplingModes,
   scheduled_sampling_decay_steps : DecaySteps,
   scheduled_sampling_k : SamplingK,
   latent_loss_multiplier_schedule : Schedules,
   num_iterations_2nd_stage : SecondStages,
   anneal_end : AnnealEnds,
   latent_loss_multiplier : Multipliers,
   latent_num_frames : {0}]

(* A hyperparameter the configuration never reads keeps its first value:   *)
(* decay_steps is read in prob mode only, k in count mode only, anneal_end *)
(* under linear_anneal only.                                               *)
First(S) == CHOOSE x \in S : \A y \in S : x <= y
Relevant(h) ==
  /\ h.scheduled_sampling_mode = "prob" => h.scheduled_sampling_k = First(SamplingK)
  /\ h.scheduled_sampling_mode = "count" =>
       h.scheduled_sampling_decay_steps = First(DecaySteps)
  /\ h.latent_loss_multiplier_schedule = "constant" => h.anneal_end = First(AnnealEnds)

GlobalSteps ==
  {[present |-> FALSE, value |-> 0]} \cup
  {[present |-> TRUE, value |-> n] : n \in 0..MaxStep}

is_training == hparams.mode = "train"
NumFrames == hparams.video_num_input_frames + hparams.video_num_target_frames

(* features: the concatenated input and target sequences, time-major *)
all_frames == [t \in 1..NumFrames |-> Image(t - 1)]
all_actions == [t \in 1..NumFrames |-> Action(t - 1)]
all_rewards == [t \in 1..NumFrames |-> Reward(t - 1)]

-----------------------------------------------------------------------------
(* get_scheduled_sample_func *)

IterNum == IF global_step.present THEN global_step.value ELSE _LARGE_STEP_NUMBER

Min(a, b) == IF a <= b THEN a ELSE b

(* tf.train.polynomial_decay(1.0, iter_num, decay_steps, 0.0), power 1 *)
polynomial_decay(iter_num, decay_steps) ==
  Rat(decay_steps - Min(iter_num, decay_steps), decay_steps)

ExpScale == 100 * 1000
RECURSIVE ExpTerms(_, _, _, _)
ExpTerms(term, n, x_num, x_den) ==
  IF term = 0 THEN 0
  ELSE term + ExpTerms((term * x_num) \div (x_den * n), n + 1, x_num, x_den)

(* tf.exp(x_num / x_den) in float32, scaled by ExpScale; -1 stands for +inf *)
ExpScaled(x_num, x_den) ==
  IF x_num > 88 * x_den THEN -1 ELSE ExpTerms(ExpScale, 1, x_num, x_den)

(* tf.round: round half to even, of num / den with den > 0 *)
RoundHalfEven(num, den) ==
  LET q == (2 * num + den) \div (2 * den)
      tie == (2 * num + den) % (2 * den) = 0
  IN IF tie /\ q % 2 = 1 THEN q - 1 ELSE q

num_ground_truth(batch_size, k, iter_num) ==
  LET e == ExpScaled(iter_num, k)
  IN IF e = -1 THEN 0
     ELSE RoundHalfEven(batch_size * k * ExpScale, k * ExpScale + e)

get_scheduled_sample_func(batch_size) ==
  IF hparams.scheduled_sampling_mode = "prob"
  THEN [func |-> "scheduled_sample_prob",
        var |-> polynomial_decay(IterNum, hparams.scheduled_sampling_decay_steps)]
  ELSE [func |-> "scheduled_sample_count",
        var |-> Rat(num_ground_truth(batch_size, hparams.scheduled_sampling_k,
                                     IterNum), 1)]

(* common_video.scheduled_sample_prob: an independent Bernoulli choice per  *)
(* example, ground truth with probability p.  The set of index vectors one  *)
(* call can draw.                                                           *)
scheduled_sample_prob(p) ==
  {s \in [Batch -> {"gt", "gen"}] :
     \A e \in Batch : /\ s[e] = "gt" => p.n > 0
                      /\ s[e] = "gen" => p.n < p.d}

(* common_video.scheduled_sample_count: exactly n examples use ground truth *)
scheduled_sample_count(n) ==
  {s \in [Batch -> {"gt", "gen"}] : Cardinality({e \in Batch : s[e] = "gt"}) = n.n}

(* The index vectors one call of the partial ss_func can draw *)
ss_func(ss) ==
  IF ss.func = "scheduled_sample_prob"
  THEN scheduled_sample_prob(ss.var)
  ELSE scheduled_sample_count(ss.var)

(* tf.gather over the concatenation [ground_truth_x, generated_x] *)
Gather(sel, ground_truth_x, generated_x) ==
  [e \in Batch |-> IF sel[e] = "gt" THEN ground_truth_x[e] ELSE generated_x[e]]

-----------------------------------------------------------------------------
(* get_scheduled_sample_inputs *)

(* sample(): scheduled_sampling_func is called once per item, so every item *)
(* has a draw of its own: draws[i] is the draw of the call for item i.      *)
sample(groundtruth_items, generated_items, draws) ==
  [i \in 1..Len(groundtruth_items) |->
     Gather(draws[i], groundtruth_items[i], generated_items[i])]

(* tf.case(cases, default, exclusive=False): the first pair, in the order   *)
(* the pairs are tested, whose predicate holds; else the default.  The      *)
(* pairs of a dict are tested in the order of their predicates' op names:   *)
(* callers list them in that order.                                         *)
tf_case(cases, default) ==
  IF \E i \in 1..Len(cases) : cases[i].pred
  THEN cases[CHOOSE i \in 1..Len(cases) :
               cases[i].pred /\ \A j \in 1..(i - 1) : ~cases[j].pred].fn
  ELSE default

(* Mutant: the not-training pair is tested before the warm-start pair *)
get_scheduled_sample_inputs_eval_first(done_warm_start, groundtruth_items, generated_items, draws) ==
  LET cases == << [pred |-> ~is_training, fn |-> generated_items],
                  [pred |-> ~done_warm_start, fn |-> groundtruth_items] >>
  IN tf_case(cases, sample(groundtruth_items, generated_items, draws))

(* Mutant: the not-training pair is missing *)
get_scheduled_sample_inputs_no_eval(done_warm_start, groundtruth_items, generated_items, draws) ==
  LET cases == << [pred |-> ~done_warm_start, fn |-> groundtruth_items] >>
  IN tf_case(cases, sample(groundtruth_items, generated_items, draws))

(* The predicates are the ops LogicalNot (warm start, created first) and    *)
(* LogicalNot_1 (not training), so the warm-start pair is tested first.     *)
get_scheduled_sample_inputs(done_warm_start, groundtruth_items, generated_items, draws) ==
  LET cases == << [pred |-> ~done_warm_start, fn |-> groundtruth_items],
                  [pred |-> ~is_training, fn |-> generated_items] >>
  IN tf_case(cases, sample(groundtruth_items, generated_items, draws))

-----------------------------------------------------------------------------
(* Towers *)

(* Mutant: the cell starts from a fresh state whatever state it is given *)
lstm_func_stateless(state) == [k |-> "lstm", n |-> 1]

(* common_video.conv_lstm_2d: the new state of one recurrent slot; n counts *)
(* the cell evaluations the state has been through.                         *)
lstm_func(state) ==
  [k |-> "lstm", n |-> IF state.k = "None" THEN 1 ELSE state.n + 1]

(* Mutant: the cell of state2 reads and writes slot 0 again *)
bottom_part_tower_slot_reused(lstm_state) ==
  [i \in 1..Len(lstm_state) |->
     IF i = 1 THEN lstm_func(lstm_func(lstm_state[i]))
     ELSE IF i \in 3..5 THEN lstm_func(lstm_state[i]) ELSE lstm_state[i]]

(* bottom_part_tower writes lstm_state[0..4] in place *)
bottom_part_tower(lstm_state) ==
  [i \in 1..Len(lstm_state) |->
     IF i <= 5 THEN lstm_func(lstm_state[i]) ELSE lstm_state[i]]

(* Mutant: the mask count is checked whatever the model mode *)
TowerRaises_any_mode == hparams.num_masks # 1

(* The ValueError of construct_predictive_tower *)
TowerRaises == hparams.model_options = "DNA" /\ hparams.num_masks # 1

construct_predictive_tower(input_image, input_reward, action, lstm_state, z) ==
  LET bottom == bottom_part_tower(lstm_state)
      state == [i \in 1..Len(lstm_state) |->
                  IF i \in {6, 7} THEN lstm_func(bottom[i]) ELSE bottom[i]]
  IN [raised |-> TowerRaises,
      output |-> [e \in Batch |->
                    [k |-> "pred_image", image |-> input_image[e],
                     reward |-> input_reward[e], action |-> action[e],
                     latent |-> z, n |-> state[7].n]],
      lstm_state |-> state]

reward_prediction(input_image, input_reward, action, lstm_state, z) ==
  LET state == bottom_part_tower(lstm_state)
  IN [pred_reward |-> [e \in Batch |->
                         [k |-> "pred_reward", image |-> input_image[e],
                          reward |-> input_reward[e], action |-> action[e],
                          latent |-> z, n |-> state[5].n]],
      lstm_state |-> state]

(* Mutant: the posterior is returned in every mode *)
construct_latent_tower_any_mode(images, kl) ==
  LET latent_num_frames ==
        IF hparams.latent_num_frames = 0
        THEN hparams.video_num_input_frames + hparams.video_num_target_frames
        ELSE hparams.latent_num_frames
      frames == SubSeq(images, 1, Min(latent_num_frames, Len(images)))
  IN [mean |-> [k |-> "latent_mean", frames |-> frames, kl |-> kl],
      std |-> [k |-> "latent_std", frames |-> frames, kl |-> kl],
      frames |-> frames]

(* construct_latent_tower: the posterior of images[:latent_num_frames] in   *)
(* training, (zero, zero) otherwise; frames is that slice, which the        *)
(* convolutions consume in every mode.  kl is the KL divergence of the pair *)
(* from the standard normal, decided by the learned weights.                *)
construct_latent_tower(images, kl) ==
  LET latent_num_frames ==
        IF hparams.latent_num_frames = 0
        THEN hparams.video_num_input_frames + hparams.video_num_target_frames
        ELSE hparams.latent_num_frames
      frames == SubSeq(images, 1, Min(latent_num_frames, Len(images)))
  IN IF hparams.mode # "train"
     THEN [mean |-> [k |-> "zeros"], std |-> [k |-> "zeros"], frames |-> frames]
     ELSE [mean |-> [k |-> "latent_mean", frames |-> frames, kl |-> kl],
           std |-> [k |-> "latent_std", frames |-> frames, kl |-> kl],
           frames |-> frames]

get_gaussian_latent(latent_mean, latent_std) ==
  [k |-> "latent", mean |-> latent_mean, std |-> latent_std]

(* common_layers.kl_divergence(mean, std); 0 for the (zero, zero) pair *)
kl_divergence(mean, std) == IF mean.k = "zeros" THEN 0 ELSE mean.kl

-----------------------------------------------------------------------------
(* construct_model (scan variant) *)

context_frames == hparams.video_num_input_frames

NoDraws == << Tensor("gt"), Tensor("gt") >>

(* process_single_frame(prev_outputs, inputs): inputs is unpacked by        *)
(* position as (cur_image, cur_reward, action).                             *)
process_single_frame(prev, inputs, draws) ==
  LET cur_image == inputs[1]
      cur_reward == inputs[2]
      action == inputs[3]
      time_step == prev.time_step
      generated_items == << prev.image, prev.reward >>
      groundtruth_items == << cur_image, cur_reward >>
      done_warm_start == time_step > context_frames - 1
      items == get_scheduled_sample_inputs(
                 done_warm_start, groundtruth_items, generated_items, draws)
      input_image == items[1]
      input_reward == items[2]
      pt == construct_predictive_tower(
              input_image, input_reward, action, prev.lstm_states, latent)
      rt == reward_prediction(
              input_image, input_reward, action, prev.reward_lstm_states, latent)
      pred_reward == IF hparams.reward_prediction THEN rt.pred_reward
                     ELSE input_reward
  IN [raised |-> pt.raised,
      outputs |-> [time_step |-> time_step + 1,
                   image |-> pt.output,
                   reward |-> pred_reward,
                   lstm_states |-> pt.lstm_state,
                   reward_lstm_states |->
                     IF hparams.reward_prediction THEN rt.lstm_state
                     ELSE prev.reward_lstm_states],
      call |-> [k |-> "call",
                time_step |-> time_step,
                cur_image |-> cur_image,
                cur_reward |-> cur_reward,
                action |-> action,
                done_warm_start |-> done_warm_start,
                groundtruth_items |-> groundtruth_items,
                generated_items |-> generated_items,
                sampled |-> done_warm_start /\ is_training,
                draws |-> IF done_warm_start /\ is_training THEN draws ELSE NoDraws,
                input_image |-> input_image,
                input_reward |-> input_reward]]

NoCall == [k |-> "None"]
NoOutputs == [time_step |-> 0, image |-> Tensor(None), reward |-> Tensor(None),
              lstm_states |-> << >>, reward_lstm_states |-> << >>]
NoTower == [k |-> "None"]
Zero == Rat(0, 1)

InitModel(Models, HSet, KLSet) ==
  /\ model \in Models
  /\ hparams \in HSet
  /\ posterior_kl \in KLSet
  /\ global_step \in GlobalSteps
  /\ pc = "body"
  /\ ss_var = [func |-> "None", var |-> Zero]
  /\ latent = None
  /\ latent_means = << >>
  /\ prev_outputs = NoOutputs
  /\ scan_i = 0
  /\ gen_images = << >>
  /\ gen_rewards = << >>
  /\ call = NoCall
  /\ beta = Zero
  /\ extra_loss = Zero
  /\ predictions = << >>
  /\ reward_pred = << >>

InitBody(HSet, KLSet) == InitModel({"NextFrameStochastic"}, HSet, KLSet)

(* Configurations of the sequence driver: every driver hyperparameter       *)
(* varies; construct_model reads neither the beta schedule nor the KL, and  *)
(* the driver sees model_options and num_masks only through the ValueError  *)
(* of the DNA mode, so CDNA with one mask stands for the modes that do not  *)
(* raise it.                                                                *)
DriverHParams ==
  {h \in HParams :
     /\ Relevant(h)
     /\ h.model_options # "DNA" => (h.model_options = "CDNA" /\ h.num_masks = 1)
     /\ h.latent_loss_multiplier_schedule = "constant"
     /\ h.num_iterations_2nd_stage = First(SecondStages)}

(* Configurations of the loss accountant: every schedule hyperparameter     *)
(* varies; the beta schedule and the KL sum read no sampling hyperparameter *)
(* and no compositing hyperparameter.                                       *)
LossHParams ==
  {h \in HParams :
     /\ Relevant(h)
     /\ h.video_num_target_frames = 1
     /\ h.model_options = "CDNA"
     /\ h.num_masks = 1
     /\ ~h.reward_prediction
     /\ h.scheduled_sampling_mode = "prob"
     /\ h.scheduled_sampling_decay_steps = First(DecaySteps)}

Init == InitBody(DriverHParams, {1}) /\ tower = NoTower
InitLoss == InitBody(LossHParams, 0..MaxKL) /\ tower = NoTower

(* body calls construct_model, which first builds the sampling function *)
ScheduledSampleFunc ==
  /\ model = "NextFrameStochastic"
  /\ pc = "body"
  /\ ss_var' = get_scheduled_sample_func(BatchSize)
  /\ pc' = "latent"
  /\ UNCHANGED <<model, hparams, posterior_kl, global_step, latent, latent_means, prev_outputs, scan_i,
                 gen_images, gen_rewards, call, beta, extra_loss, predictions,
                 reward_pred, tower>>

(* Lines 540-551.  Latent tower: only when stochastic_model; latent_mean     *)
(* stays unbound otherwise.  Then the state lists and the initial tuple.    *)
LatentTower ==
  /\ pc = "latent"
  /\ prev_outputs' = [time_step |-> 0,
                      image |-> ImageAt(all_frames, 0),
                      reward |-> ImageAt(all_rewards, 0),
                      lstm_states |-> [i \in 1..NumMainLstm |-> None],
                      reward_lstm_states |-> [i \in 1..NumRewardLstm |-> None]]
  /\ IF hparams.stochastic_model
     THEN LET lt == construct_latent_tower(all_frames, posterior_kl)
          IN /\ latent' = get_gaussian_latent(lt.mean, lt.std)
             /\ latent_means' = << lt >>
     ELSE UNCHANGED <<latent, latent_means>>
  /\ pc' = "first_step"
  /\ UNCHANGED <<model, hparams, posterior_kl, global_step, ss_var, scan_i, gen_images,
                 gen_rewards, call, beta, extra_loss, predictions, reward_pred,
                 tower>>

(* The first step, made outside the scan *)
FirstStep ==
  /\ pc = "first_step"
  /\ \E d1 \in ss_func(ss_var), d2 \in ss_func(ss_var) :
       LET inputs == << ImageAt(all_frames, 0), ImageAt(all_rewards, 0),
                        ImageAt(all_actions, 0) >>
           r == process_single_frame(prev_outputs, inputs, << d1, d2 >>)
       IN /\ call' = r.call
          /\ IF r.raised
             THEN /\ pc' = "ValueError_DNA"
                  /\ UNCHANGED <<prev_outputs, gen_images, gen_rewards, scan_i>>
             ELSE /\ pc' = "scan"
                  /\ prev_outputs' = r.outputs
                  /\ gen_images' = << r.outputs.image >>
                  /\ gen_rewards' = << r.outputs.reward >>
                  /\ scan_i' = 1
  /\ UNCHANGED <<model, hparams, posterior_kl, global_step, ss_var, latent, latent_means, beta,
                 extra_loss, predictions, reward_pred, tower>>

(* One iteration of tf.scan over (images[1:-1], actions[1:-1], rewards[1:-1]) *)
ScanStep ==
  /\ pc = "scan"
  /\ scan_i < NumFrames - 1
  /\ \E d1 \in ss_func(ss_var), d2 \in ss_func(ss_var) :
       LET inputs == << ImageAt(all_frames, scan_i), ImageAt(all_actions, scan_i),
                        ImageAt(all_rewards, scan_i) >>
           r == process_single_frame(prev_outputs, inputs, << d1, d2 >>)
       IN /\ call' = r.call
          /\ prev_outputs' = r.outputs
          /\ gen_images' = Append(gen_images, r.outputs.image)
          /\ gen_rewards' = Append(gen_rewards, r.outputs.reward)
          /\ scan_i' = scan_i + 1
  /\ pc' = "scan"
  /\ UNCHANGED <<model, hparams, posterior_kl, global_step, ss_var, latent, latent_means, beta,
                 extra_loss, predictions, reward_pred, tower>>

(* return gen_images, gen_rewards, [latent_mean], [latent_std] *)
ConstructModelReturn ==
  /\ pc = "scan"
  /\ scan_i >= NumFrames - 1
  /\ pc' = IF hparams.stochastic_model THEN "schedule" ELSE "NameError"
  /\ UNCHANGED <<model, hparams, posterior_kl, global_step, ss_var, latent, latent_means, prev_outputs,
                 scan_i, gen_images, gen_rewards, call, beta, extra_loss,
                 predictions, reward_pred, tower>>

-----------------------------------------------------------------------------
(* NextFrameStochasticTwoFrames.construct_model: the explicit loop *)

(* One iteration of the loop over zip(range(len(images) - 1), images[:-1],  *)
(* actions[:-1], rewards[:-1]); prev holds pred_image, pred_reward and the  *)
(* two state lists as the previous iteration left them.                     *)
two_frames_step(prev, timestep, draws) ==
  LET image == ImageAt(all_frames, timestep)
      action == ImageAt(all_actions, timestep)
      reward == ImageAt(all_rewards, timestep)
      done_warm_start == timestep > context_frames - 1
      groundtruth_items == << image, reward >>
      generated_items == << prev.image, prev.reward >>
      items == get_scheduled_sample_inputs(
                 done_warm_start, groundtruth_items, generated_items, draws)
      input_image == items[1]
      input_reward == items[2]
      latent_images == << image, ImageAt(all_frames, timestep + 1) >>
      lt == construct_latent_tower(latent_images, posterior_kl)
      z == get_gaussian_latent(lt.mean, lt.std)
      pt == construct_predictive_tower(
              input_image, input_reward, action, prev.lstm_states, z)
      rt == reward_prediction(
              input_image, input_reward, action, prev.reward_lstm_states, z)
      pred_reward == IF hparams.reward_prediction THEN rt.pred_reward
                     ELSE input_reward
  IN [raised |-> pt.raised,
      latent_tower |-> lt,
      latent |-> z,
      outputs |-> [time_step |-> timestep + 1,
                   image |-> pt.output,
                   reward |-> pred_reward,
                   lstm_states |-> pt.lstm_state,
                   reward_lstm_states |->
                     IF hparams.reward_prediction THEN rt.lstm_state
                     ELSE prev.reward_lstm_states],
      call |-> [k |-> "call",
                time_step |-> timestep,
                cur_image |-> image,
                cur_reward |-> reward,
                action |-> action,
                done_warm_start |-> done_warm_start,
                groundtruth_items |-> groundtruth_items,
                generated_items |-> generated_items,
                sampled |-> done_warm_start /\ is_training,
                draws |-> IF done_warm_start /\ is_training THEN draws ELSE NoDraws,
                input_image |-> input_image,
                input_reward |-> input_reward]]

(* Lines 757-775: the lists, the state lists and the sampling function *)
TwoFramesStart ==
  /\ model = "NextFrameStochasticTwoFrames"
  /\ pc = "body"
  /\ ss_var' = get_scheduled_sample_func(BatchSize)
  /\ prev_outputs' = [time_step |-> 0,
                      image |-> ImageAt(all_frames, 0),
                      reward |-> ImageAt(all_rewards, 0),
                      lstm_states |-> [i \in 1..NumMainLstm |-> None],
                      reward_lstm_states |-> [i \in 1..NumRewardLstm |-> None]]
  /\ pc' = "loop"
  /\ UNCHANGED <<model, hparams, posterior_kl, global_step, latent, latent_means,
                 scan_i, gen_images, gen_rewards, call, beta, extra_loss,
                 predictions, reward_pred, tower>>

(* Lines 776-803: one iteration *)
TwoFramesStep ==
  /\ pc = "loop"
  /\ scan_i < NumFrames - 1
  /\ \E d1 \in ss_func(ss_var), d2 \in ss_func(ss_var) :
       LET r == two_frames_step(prev_outputs, scan_i, << d1, d2 >>)
       IN /\ call' = r.call
          /\ IF r.raised
             THEN /\ pc' = "ValueError_DNA"
                  /\ UNCHANGED <<prev_outputs, gen_images, gen_rewards, scan_i,
                                 latent, latent_means>>
             ELSE /\ pc' = "loop"
                  /\ prev_outputs' = r.outputs
                  /\ latent' = r.latent
                  /\ latent_means' = Append(latent_means, r.latent_tower)
                  /\ gen_images' = Append(gen_images, r.outputs.image)
                  /\ gen_rewards' = Append(gen_rewards, r.outputs.reward)
                  /\ scan_i' = scan_i + 1
  /\ UNCHANGED <<model, hparams, posterior_kl, global_step, ss_var, beta,
                 extra_loss, predictions, reward_pred, tower>>

(* return gen_images, gen_rewards, latent_means, latent_stds *)
TwoFramesReturn ==
  /\ pc = "loop"
  /\ scan_i >= NumFrames - 1
  /\ pc' = "schedule"
  /\ UNCHANGED <<model, hparams, posterior_kl, global_step, ss_var, latent, latent_means,
                 prev_outputs, scan_i, gen_images, gen_rewards, call, beta,
                 extra_loss, predictions, reward_pred, tower>>

-----------------------------------------------------------------------------
(* body: the beta schedule and the auxiliary loss *)

(* Mutant: the formula of the comment at line 692, mult * fraction *)
anneal_loss_as_commented(step_num, second_stage, anneal_end, latent_loss_multiplier) ==
  LET fraction == RDiv(RSub(Int2Rat(anneal_end), Int2Rat(step_num)),
                       Int2Rat(anneal_end - second_stage))
  IN RMul(Int2Rat(latent_loss_multiplier), fraction)

(* anneal_loss(step_num) *)
anneal_loss(step_num, second_stage, anneal_end, latent_loss_multiplier) ==
  LET fraction == RDiv(RSub(Int2Rat(anneal_end), Int2Rat(step_num)),
                       Int2Rat(anneal_end - second_stage))
  IN RMul(Int2Rat(latent_loss_multiplier), RSub(Int2Rat(1), fraction))

(* Mutant: beta switches on at the threshold itself *)
constant_beta_geq(step_num, second_stage, latent_loss_multiplier) ==
  IF step_num >= second_stage THEN Int2Rat(latent_loss_multiplier) ELSE Zero

constant_beta(step_num, second_stage, latent_loss_multiplier) ==
  IF step_num > second_stage THEN Int2Rat(latent_loss_multiplier) ELSE Zero

linear_anneal_beta(step_num, second_stage, anneal_end, latent_loss_multiplier) ==
  tf_case(<< [pred |-> step_num < second_stage, fn |-> Zero],
             [pred |-> step_num > anneal_end,
              fn |-> Int2Rat(latent_loss_multiplier)] >>,
          anneal_loss(step_num, second_stage, anneal_end, latent_loss_multiplier))

(* The ValueError of the linear_anneal schedule *)
AnnealRaises ==
  /\ hparams.latent_loss_multiplier_schedule = "linear_anneal"
  /\ hparams.anneal_end < hparams.num_iterations_2nd_stage

BetaSchedule ==
  /\ pc = "schedule"
  /\ LET step_num == IterNum
         second_stage == hparams.num_iterations_2nd_stage
     IN IF hparams.latent_loss_multiplier_schedule = "constant"
        THEN /\ beta' = constant_beta(step_num, second_stage,
                                      hparams.latent_loss_multiplier)
             /\ pc' = "loss"
        ELSE IF AnnealRaises
        THEN /\ pc' = "ValueError_anneal"
             /\ UNCHANGED beta
        ELSE /\ beta' = linear_anneal_beta(step_num, second_stage, hparams.anneal_end,
                                           hparams.latent_loss_multiplier)
             /\ pc' = "loss"
  /\ UNCHANGED <<model, hparams, posterior_kl, global_step, ss_var, latent, latent_means, prev_outputs,
                 scan_i, gen_images, gen_rewards, call, extra_loss, predictions,
                 reward_pred, tower>>

RECURSIVE SumKL(_)
SumKL(pairs) ==
  IF pairs = << >> THEN 0
  ELSE kl_divergence(Head(pairs).mean, Head(pairs).std) + SumKL(Tail(pairs))

(* kl_loss: accumulated in training mode only *)
kl_loss == IF is_training THEN Int2Rat(SumKL(latent_means)) ELSE Zero

(* Mutant: every prediction of an input frame is dropped *)
IgnoreInputFrames_off_by_one(gen) ==
  SubSeq(gen, hparams.video_num_input_frames + 1, Len(gen))

(* gen[video_num_input_frames-1:] *)
IgnoreInputFrames(gen) == SubSeq(gen, hparams.video_num_input_frames, Len(gen))

LossAndReturn ==
  /\ pc = "loss"
  /\ extra_loss' = RMul(beta, kl_loss)
  /\ predictions' = IgnoreInputFrames(gen_images)
  /\ reward_pred' = IgnoreInputFrames(gen_rewards)
  /\ pc' = "done"
  /\ UNCHANGED <<model, hparams, posterior_kl, global_step, ss_var, latent, latent_means, prev_outputs,
                 scan_i, gen_images, gen_rewards, call, beta, tower>>

-----------------------------------------------------------------------------
(* construct_predictive_tower: candidates, masks and compositing, at one    *)
(* pixel of one batch element.  exps[c] stands for exp(logit) of channel c  *)
(* of the convt7 output at that pixel.                                      *)

(* common_video.cdna_transformation: num_masks transformed images *)
cdna_transformation(num_masks) == [i \in 1..num_masks |-> <<"cdna", i>>]

(* The list `transformed` when no error is raised *)
Transformed(model_options, num_masks) ==
  LET direct == IF model_options = "DNA" THEN << >> ELSE << <<"direct", 0>> >>
  IN IF model_options = "CDNA" THEN direct \o cdna_transformation(num_masks)
     ELSE IF model_options = "DNA" THEN << <<"dna", 0>> >>
     ELSE direct

RECURSIVE SumSeq(_)
SumSeq(seq) == IF seq = << >> THEN 0 ELSE Head(seq) + SumSeq(Tail(seq))

(* Mutant: a per-channel sigmoid in place of the softmax *)
sigmoid_masks(exps) == [c \in 1..Len(exps) |-> Rat(exps[c], exps[c] + 1)]

(* The channels of the convt7 output: filters = num_masks + 1 *)
MaskChannels(num_masks) == 1..(num_masks + 1)

(* tf.nn.softmax over the channel dimension *)
softmax(exps) == [c \in 1..Len(exps) |-> Rat(exps[c], SumSeq(exps))]

(* zip(a, b): pairs up to the shorter list *)
Zip(a, b) == [i \in 1..Min(Len(a), Len(b)) |-> [layer |-> a[i], mask |-> b[i]]]

(* The terms of output = mask_list[0] * input_image + sum(layer * mask) *)
Composite(transformed, mask_list) ==
  << [layer |-> <<"input_image", 0>>, mask |-> mask_list[1]] >>
  \o Zip(transformed, Tail(mask_list))

TowerHParams ==
  {h \in HParams :
     /\ Relevant(h)
     /\ h.mode = "train"
     /\ h.video_num_input_frames = 1
     /\ h.video_num_target_frames = 1
     /\ h.stochastic_model
     /\ ~h.reward_prediction
     /\ h.scheduled_sampling_mode = "prob"
     /\ h.scheduled_sampling_decay_steps = First(DecaySteps)
     /\ h.latent_loss_multiplier_schedule = "constant"
     /\ h.num_iterations_2nd_stage = First(SecondStages)}

InitTower ==
  /\ InitBody(TowerHParams, {1})
  /\ global_step = [present |-> FALSE, value |-> 0]
  /\ \E exps \in [MaskChannels(hparams.num_masks) -> 1..MaxExp] :
       tower = [k |-> "tower", pc |-> "start", exps |-> exps]

(* Lines 424-461: the candidate list, or the ValueError *)
TowerCandidates ==
  /\ tower.k = "tower"
  /\ tower.pc = "start"
  /\ tower' = IF TowerRaises
              THEN [k |-> "tower", pc |-> "ValueError", exps |-> tower.exps]
              ELSE [k |-> "tower", pc |-> "masks", exps |-> tower.exps,
                    transformed |->
                      Transformed(hparams.model_options, hparams.num_masks)]
  /\ UNCHANGED bodyVars

(* Lines 463-477: the softmax masks and the weighted sum *)
TowerComposite ==
  /\ tower.k = "tower"
  /\ tower.pc = "masks"
  /\ LET masks == softmax(tower.exps)
     IN tower' = [k |-> "tower", pc |-> "done", exps |-> tower.exps,
                  transformed |-> tower.transformed,
                  masks |-> masks,
                  output |-> Composite(tower.transformed, masks)]
  /\ UNCHANGED bodyVars

NextTower == TowerCandidates \/ TowerComposite

SpecTower == InitTower /\ [][NextTower]_vars

-----------------------------------------------------------------------------
(* construct_latent_tower and get_gaussian_latent at one element of the    *)
(* latent tensor.  conv_mean and conv_std are what the convolutions        *)
(* compute from the frames (std after relu and latent_std_min), noise is   *)
(* the element tf.random_normal draws.                                     *)

ConvMeans == {Rat(-1, 1), Rat(0, 1), Rat(1, 1)}
ConvStds == {Rat(0, 1), Rat(2, 1)}
Noises == {Rat(-1, 1), Rat(0, 1), Rat(1, 2), Rat(1, 1)}

zeros_like(x) == Zero

(* Lines 241-245: the pair the latent tower returns *)
latent_tower_values(mean, std) ==
  IF hparams.mode # "train" THEN << zeros_like(mean), zeros_like(std) >>
  ELSE << mean, std >>

(* tf.exp of a non-negative rational *)
RExp(x) ==
  LET e == ExpScaled(x.n, x.d)
  IN IF e = -1 THEN Rat(1, 0) ELSE Rat(e, ExpScale)

(* Mutant: the std scales the noise directly *)
gaussian_latent_value_linear(latent_mean, latent_std, noise) ==
  RAdd(latent_mean, RMul(latent_std, noise))

(* Lines 480-481: latent_mean + tf.exp(latent_std / 2.0) * latent *)
gaussian_latent_value(latent_mean, latent_std, noise) ==
  RAdd(latent_mean, RMul(RExp(RDiv(latent_std, Int2Rat(2))), noise))

LatentHParams ==
  {h \in TowerHParams \cup {[g EXCEPT !.mode = "eval"] : g \in TowerHParams} :
     h.model_options = "CDNA" /\ h.num_masks = 1}

InitLatent ==
  /\ InitBody({[g EXCEPT !.video_num_input_frames = i,
                         !.video_num_target_frames = o] :
                  g \in LatentHParams, i \in 1..MaxInputFrames,
                  o \in 1..MaxTargetFrames},
              {1})
  /\ global_step = [present |-> FALSE, value |-> 0]
  /\ \E m \in ConvMeans, sd \in ConvStds, z \in Noises :
       tower = [k |-> "latent_tower", pc |-> "start",
                conv_mean |-> m, conv_std |-> sd, noise |-> z]

(* construct_latent_tower returns *)
LatentTowerReturn ==
  /\ tower.k = "latent_tower"
  /\ tower.pc = "start"
  /\ LET r == latent_tower_values(tower.conv_mean, tower.conv_std)
     IN tower' = [k |-> "latent_tower", pc |-> "returned",
                  conv_mean |-> tower.conv_mean, conv_std |-> tower.conv_std,
                  noise |-> tower.noise, mean |-> r[1], std |-> r[2]]
  /\ UNCHANGED bodyVars

(* get_gaussian_latent on the returned pair *)
GaussianLatent ==
  /\ tower.k = "latent_tower"
  /\ tower.pc = "returned"
  /\ tower' = [k |-> "latent_tower", pc |-> "done",
               conv_mean |-> tower.conv_mean, conv_std |-> tower.conv_std,
               noise |-> tower.noise, mean |-> tower.mean, std |-> tower.std,
               latent |-> gaussian_latent_value(tower.mean, tower.std, tower.noise)]
  /\ UNCHANGED bodyVars

NextLatent == LatentTowerReturn \/ GaussianLatent

SpecLatent == InitLatent /\ [][NextLatent]_vars

-----------------------------------------------------------------------------
(* construct_predictive_tower: the spatial shapes <<height, width>> of its *)
(* tensors for one frame shape.                                            *)

(* common_layers.make_even_size: pads a side up to the next even size *)
make_even_size(shape) == [i \in 1..2 |-> shape[i] + (shape[i] % 2)]

(* tf.layers.conv2d, strides (2, 2), padding SAME: ceil(side / 2) *)
conv2d_stride2(shape) == [i \in 1..2 |-> (shape[i] + 1) \div 2]

(* common_layers.cyclegan_upsample, stride [2, 2]: both sides doubled, *)
(* whatever the upsample method                                        *)
cyclegan_upsample(shape) == [i \in 1..2 |-> 2 * shape[i]]

(* x[:, :shape[1], :shape[2], :] *)
CutToShape(x, shape) == [i \in 1..2 |-> Min(x[i], shape[i])]

(* Lines 273-326: the shapes of enc0, enc1 and hidden5 *)
bottom_part_shapes(frame) ==
  LET enc0 == conv2d_stride2(make_even_size(frame))
      enc1 == conv2d_stride2(make_even_size(enc0))
      enc2 == conv2d_stride2(make_even_size(enc1))
  IN [enc0 |-> enc0, enc1 |-> enc1, hidden5 |-> enc2]

(* tf.reshape(masks, [batch_size, img_height, img_width, num_masks + 1]) *)
(* fails when the element counts differ                                  *)
MaskReshapeFails(enc6, frame) == enc6[1] * enc6[2] # frame[1] * frame[2]

ShapeHParams == {h \in TowerHParams : h.model_options # "DNA"}

InitShapes ==
  /\ InitBody(ShapeHParams, {1})
  /\ global_step = [present |-> FALSE, value |-> 0]
  /\ \E height \in 1..MaxSide, width \in 1..MaxSide :
       tower = [k |-> "shapes", pc |-> "start", frame |-> << height, width >>]

(* Line 381: bottom_part_tower *)
ShapesBottom ==
  /\ tower.k = "shapes"
  /\ tower.pc = "start"
  /\ LET b == bottom_part_shapes(tower.frame)
     IN tower' = [k |-> "shapes", pc |-> "upsample1", frame |-> tower.frame,
                  enc0 |-> b.enc0, enc1 |-> b.enc1, hidden5 |-> b.hidden5]
  /\ UNCHANGED bodyVars

(* Lines 386-401: upsample1, the cut to enc1's shape, the concat with enc1 *)
ShapesUpsample1 ==
  /\ tower.k = "shapes"
  /\ tower.pc = "upsample1"
  /\ LET up == cyclegan_upsample(tower.hidden5)
         enc4 == CutToShape(up, tower.enc1)
     IN tower' = [k |-> "shapes",
                  pc |-> IF enc4 = tower.enc1 THEN "upsample2" ELSE "ShapeError",
                  frame |-> tower.frame, enc0 |-> tower.enc0, enc1 |-> tower.enc1,
                  up1 |-> up, hidden6 |-> enc4]
  /\ UNCHANGED bodyVars

(* Lines 403-417: upsample2, the cut to enc0's shape, the concat with enc0 *)
ShapesUpsample2 ==
  /\ tower.k = "shapes"
  /\ tower.pc = "upsample2"
  /\ LET up == cyclegan_upsample(tower.hidden6)
         enc5 == CutToShape(up, tower.enc0)
     IN tower' = [k |-> "shapes",
                  pc |-> IF enc5 = tower.enc0 THEN "upsample3" ELSE "ShapeError",
                  frame |-> tower.frame, enc0 |-> tower.enc0, enc1 |-> tower.enc1,
                  up1 |-> tower.up1, hidden6 |-> tower.hidden6,
                  up2 |-> up, hidden7 |-> enc5]
  /\ UNCHANGED bodyVars

(* Lines 418-475: upsample3, the mask and the weighted sum *)
ShapesOutput ==
  /\ tower.k = "shapes"
  /\ tower.pc = "upsample3"
  /\ LET enc6 == cyclegan_upsample(tower.hidden7)
     IN tower' = [k |-> "shapes",
                  pc |-> IF MaskReshapeFails(enc6, tower.frame)
                         THEN "ShapeError" ELSE "done",
                  frame |-> tower.frame, enc0 |-> tower.enc0, enc1 |-> tower.enc1,
                  up1 |-> tower.up1, hidden6 |-> tower.hidden6,
                  up2 |-> tower.up2, hidden7 |-> tower.hidden7, enc6 |-> enc6,
                  masks |-> tower.frame, output |-> tower.frame]
  /\ UNCHANGED bodyVars

NextShapes == ShapesBottom \/ ShapesUpsample1 \/ ShapesUpsample2 \/ ShapesOutput

SpecShapes == InitShapes /\ [][NextShapes]_vars

Next ==
  \/ ScheduledSampleFunc
  \/ LatentTower
  \/ FirstStep
  \/ ScanStep
  \/ ConstructModelReturn
  \/ BetaSchedule
  \/ LossAndReturn

Spec == Init /\ [][Next]_vars
SpecLoss == InitLoss /\ [][Next]_vars

(* Both sequence drivers.  The two-frame variant never reads               *)
(* stochastic_model; latent_num_frames varies for it.                      *)
LatentNumFrames == {0, 1, 2}
ScanHParams ==
  {h \in DriverHParams :
     /\ h.scheduled_sampling_mode = "count"
     /\ h.scheduled_sampling_k = First(SamplingK)}
TwoFramesHParams ==
  {[h EXCEPT !.latent_num_frames = n] :
     h \in {g \in ScanHParams : g.stochastic_model}, n \in LatentNumFrames}

InitDrivers ==
  /\ \/ InitModel({"NextFrameStochastic"}, ScanHParams, {1})
     \/ InitModel({"NextFrameStochasticTwoFrames"}, TwoFramesHParams, {1})
  /\ tower = NoTower

NextDrivers ==
  \/ ScheduledSampleFunc
  \/ LatentTower
  \/ FirstStep
  \/ ScanStep
  \/ ConstructModelReturn
  \/ TwoFramesStart
  \/ TwoFramesStep
  \/ TwoFramesReturn
  \/ BetaSchedule
  \/ LossAndReturn

SpecDrivers == InitDrivers /\ [][NextDrivers]_vars

(* Configurations around the sentinel step: training in prob mode, with    *)
(* decay horizons below, at and above _LARGE_STEP_NUMBER.                  *)
SentinelDecaySteps == {2, _LARGE_STEP_NUMBER, 2 * _LARGE_STEP_NUMBER}
SentinelHParams ==
  {[h EXCEPT !.scheduled_sampling_decay_steps = d] :
     h \in {g \in DriverHParams :
              /\ g.mode = "train"
              /\ g.scheduled_sampling_mode = "prob"
              /\ g.model_options = "CDNA"
              /\ g.num_masks = 1
              /\ g.stochastic_model
              /\ ~g.reward_prediction},
     d \in SentinelDecaySteps}

InitSentinel == InitBody(SentinelHParams, {1}) /\ tower = NoTower
SpecSentinel == InitSentinel /\ [][Next]_vars

-----------------------------------------------------------------------------
(* Properties *)

ConstructModelDone == pc \in {"schedule", "loss", "done", "ValueError_anneal"}

(* C1: whenever the step index is inside the context window                *)
(* (time_step <= context_frames - 1), get_scheduled_sample_inputs returns  *)
(* the ground-truth items it was given, and the image is the ground-truth  *)
(* frame of that step, in training and non-training mode and in both       *)
(* sampling modes; the warm-start branch wins over the not-training one.   *)
C1_WarmStartGroundTruth ==
  (call.k = "call" /\ call.time_step <= context_frames - 1) =>
    /\ call.input_image = call.groundtruth_items[1]
    /\ call.input_reward = call.groundtruth_items[2]
    /\ call.input_image = ImageAt(all_frames, call.time_step)

(* A scan step inside the context window in non-training mode, count mode: *)
(* both predicates of the case hold and the two item lists differ.         *)
C1_Witness ==
  /\ call.k = "call"
  /\ call.time_step = 1
  /\ ~call.done_warm_start
  /\ ~is_training
  /\ hparams.scheduled_sampling_mode = "count"
  /\ call.generated_items # call.groundtruth_items

(* C2: in non-training mode, for every step with time_step >= context_frames, *)
(* get_scheduled_sample_inputs returns exactly the generated pair (the image  *)
(* and reward produced by the previous step), and no example of the batch     *)
(* receives a ground-truth item.                                              *)
C2_EvalUsesGenerated ==
  (call.k = "call" /\ ~is_training /\ call.time_step >= context_frames) =>
    /\ call.input_image = call.generated_items[1]
    /\ call.input_reward = call.generated_items[2]
    /\ pc = "scan" =>
         /\ call.input_image = gen_images[call.time_step]
         /\ call.input_reward = gen_rewards[call.time_step]
    /\ \A e \in Batch :
         /\ call.input_image[e] # call.groundtruth_items[1][e]
         /\ call.input_reward[e] # call.groundtruth_items[2][e]

C2_Witness ==
  /\ call.k = "call"
  /\ ~is_training
  /\ call.time_step >= context_frames
  /\ global_step.present
  /\ pc = "scan"

(* C3: when construct_model completes it has generated T_in + T_out - 1    *)
(* frames and rewards; body drops the first T_in - 1 of them, so that the   *)
(* returned frame and reward sequences have exactly T_out entries, entry k  *)
(* (from 0) being the output of step T_in - 1 + k.                          *)
C3_OutputLength ==
  /\ ConstructModelDone =>
       /\ Len(gen_images) = NumFrames - 1
       /\ Len(gen_rewards) = NumFrames - 1
  /\ pc = "done" =>
       /\ Len(predictions) = hparams.video_num_target_frames
       /\ Len(reward_pred) = hparams.video_num_target_frames
       /\ \A k \in 1..hparams.video_num_target_frames :
            /\ predictions[k] = gen_images[hparams.video_num_input_frames - 1 + k]
            /\ reward_pred[k] = gen_rewards[hparams.video_num_input_frames - 1 + k]
            /\ \A e \in Batch :
                 predictions[k][e].n = hparams.video_num_input_frames - 1 + k

C3_Witness ==
  /\ pc = "done"
  /\ hparams.video_num_input_frames > 1
  /\ hparams.video_num_target_frames > 1
  /\ Len(predictions) < Len(gen_images)

(* C4: the predictive tower raises its ValueError exactly when the model   *)
(* mode is DNA and num_masks is not 1; CDNA and plain never raise it.      *)
C4_DnaMaskError ==
  (tower.k = "tower" /\ tower.pc # "start") =>
    (tower.pc = "ValueError" <=>
       (hparams.model_options = "DNA" /\ hparams.num_masks # 1))

C4_Witness ==
  /\ tower.k = "tower"
  /\ tower.pc = "ValueError"
  /\ hparams.num_masks = 2

(* C5, as claimed: when body raises the linear_anneal configuration error, *)
(* neither the sequence driver nor a tower has been evaluated.             *)
C5_AnnealErrorBeforeComputation ==
  pc = "ValueError_anneal" =>
    /\ call = NoCall
    /\ gen_images = << >>
    /\ latent = None

(* C6, as claimed: the auxiliary loss is beta times the sum of the KL      *)
(* divergences of the latent samples in training mode, and exactly 0 in    *)
(* non-training mode.                                                      *)
C6_AuxiliaryLoss ==
  pc = "done" =>
    /\ is_training => extra_loss = RMul(beta, Int2Rat(SumKL(latent_means)))
    /\ ~is_training => REq(extra_loss, Zero)

(* C7: the compositing mask has num_masks + 1 channels; at the pixel its   *)
(* channel values are non-negative and sum to 1.                           *)
C7_MaskSumsToOne ==
  (tower.k = "tower" /\ tower.pc = "done") =>
    /\ Len(tower.masks) = hparams.num_masks + 1
    /\ \A c \in 1..Len(tower.masks) :
         IsFinite(tower.masks[c]) /\ RLeq(Zero, tower.masks[c])
    /\ REq(RSum(tower.masks), Int2Rat(1))

C7_Witness ==
  /\ tower.k = "tower"
  /\ tower.pc = "done"
  /\ hparams.num_masks = 2
  /\ \E c \in 1..Len(tower.exps) : tower.exps[c] # tower.exps[1]

OutputWeights == [i \in 1..Len(tower.output) |-> tower.output[i].mask]

(* C8, as claimed: the mask weights applied in the weighted sum are        *)
(* non-negative and add up to 1, in every model mode and for every         *)
(* num_masks the mode accepts.                                             *)
C8_ConvexCombination ==
  (tower.k = "tower" /\ tower.pc = "done") =>
    /\ \A i \in 1..Len(tower.output) : RLeq(Zero, tower.output[i].mask)
    /\ REq(RSum(OutputWeights), Int2Rat(1))

(* C9, as claimed: in training mode past warm start, for every example the *)
(* selected image is ground truth iff the selected reward is ground truth. *)
C9_PairChosenTogether ==
  (call.k = "call" /\ call.sampled) =>
    \A e \in Batch :
      (call.input_image[e] = call.groundtruth_items[1][e]) <=>
      (call.input_reward[e] = call.groundtruth_items[2][e])

(* C10: with the constant schedule, beta is latent_loss_multiplier when    *)
(* the step is strictly greater than num_iterations_2nd_stage, else 0.     *)
C10_ConstantBeta ==
  (pc \in {"loss", "done"} /\ hparams.latent_loss_multiplier_schedule = "constant") =>
    beta = IF IterNum > hparams.num_iterations_2nd_stage
           THEN Int2Rat(hparams.latent_loss_multiplier)
           ELSE Zero

C10_Witness ==
  /\ pc = "loss"
  /\ hparams.latent_loss_multiplier_schedule = "constant"
  /\ global_step.present
  /\ global_step.value = hparams.num_iterations_2nd_stage
  /\ beta = Zero

(* The steps body can read: a present global step, or the sentinel *)
Steps == (0..MaxStep) \cup {_LARGE_STEP_NUMBER}

C12_SentinelDisablesGroundTruth ==
  ~global_step.present =>
    /\ IterNum = _LARGE_STEP_NUMBER
    /\ pc \in {"loss", "done"} =>
         beta = constant_beta(_LARGE_STEP_NUMBER, hparams.num_iterations_2nd_stage,
                              hparams.latent_loss_multiplier)
    /\ (pc # "body" /\ hparams.scheduled_sampling_mode = "prob") =>
         REq(ss_var.var, Zero)
    /\ (call.k = "call" /\ call.sampled) =>
         /\ call.input_image = call.generated_items[1]
         /\ call.input_reward = call.generated_items[2]

(* C13: in non-training mode the latent tower returns (zero, zero)         *)
(* whatever the frames make the convolutions compute, and                  *)
(* get_gaussian_latent applied to that pair returns exactly the noise      *)
(* drawn from the standard normal, not the constant zero.                  *)
C13_EvalLatentIsNoise ==
  (tower.k = "latent_tower" /\ ~is_training) =>
    /\ tower.pc \in {"returned", "done"} =>
         tower.mean = Zero /\ tower.std = Zero
    /\ tower.pc = "done" =>
         /\ REq(tower.latent, tower.noise)
         /\ ~REq(tower.noise, Zero) => ~REq(tower.latent, Zero)

C13_Witness ==
  /\ tower.k = "latent_tower"
  /\ tower.pc = "done"
  /\ ~is_training
  /\ ~REq(tower.conv_mean, Zero)
  /\ ~REq(tower.conv_std, Zero)
  /\ ~REq(tower.latent, Zero)

(* C14, as claimed: every candidate takes part in the compositing: mask    *)
(* channel 0 weights the untransformed previous frame, and each candidate  *)
(* (the direct image and, in CDNA mode, each of the num_masks transformed  *)
(* images; in DNA mode the single transformed image) is multiplied by its  *)
(* own mask channel, in order; no candidate is left out of the weighted    *)
(* sum and no mask channel is left unused.                                 *)
C14_EveryCandidateComposited ==
  (tower.k = "tower" /\ tower.pc = "done") =>
    /\ tower.output[1] = [layer |-> <<"input_image", 0>>, mask |-> tower.masks[1]]
    /\ Len(tower.transformed) =
         (IF hparams.model_options = "CDNA" THEN 1 + hparams.num_masks ELSE 1)
    /\ \A i \in 1..Len(tower.transformed) :
         /\ i + 1 <= Len(tower.output)
         /\ tower.output[i + 1].layer = tower.transformed[i]
         /\ i + 1 <= Len(tower.masks)
         /\ tower.output[i + 1].mask = tower.masks[i + 1]
    /\ \A c \in 1..Len(tower.masks) : c <= Len(tower.output)

(* Number of cell evaluations behind a state slot *)
Writes(slot) == IF slot.k = "None" THEN 0 ELSE slot.n

(* A step of either driver: an invocation of process_single_frame or an    *)
(* iteration of the explicit loop; prev_outputs is what it receives and    *)
(* prev_outputs' what it returns.                                          *)
StepTaken == call' # call
StepReturned == call' # call /\ pc' # "ValueError_DNA"

(* C15: in both sequence drivers the k-th invocation of the step           *)
(* (k = 0, 1, ...) has time index k, consumes ground-truth frame k,        *)
(* receives as recurrent state and as previous image the state and image   *)
(* returned by invocation k - 1 (the uninitialized state and frame 0 for   *)
(* k = 0), and returns time index k + 1.                                   *)
C15_TemporalOrdering ==
  [][StepTaken =>
       LET k == Len(gen_images)
       IN /\ call'.time_step = k
          /\ call'.cur_image = ImageAt(all_frames, k)
          /\ call'.generated_items[1] =
               (IF k = 0 THEN ImageAt(all_frames, 0) ELSE gen_images[k])
          /\ \A i \in 1..NumMainLstm :
               /\ Writes(prev_outputs.lstm_states[i]) = k
               /\ k > 0 => \A e \in Batch :
                     gen_images[k][e].n = prev_outputs.lstm_states[NumMainLstm].n
          /\ pc' # "ValueError_DNA" =>
               /\ prev_outputs'.time_step = k + 1
               /\ Len(gen_images') = k + 1
               /\ gen_images'[k + 1] = prev_outputs'.image]_vars

(* The third invocation of the explicit loop *)
C15_Witness ==
  /\ model = "NextFrameStochasticTwoFrames"
  /\ call.k = "call"
  /\ call.time_step = 2
  /\ Len(gen_images) = 3

(* C16, as claimed: in the two-frame variant the latent of timestep t is   *)
(* estimated from exactly the two ground-truth frames t and t + 1, for     *)
(* every value of latent_num_frames, and one (mean, std) pair is collected *)
(* per timestep, T - 1 in total for a sequence of T frames.                *)
C16_TwoFrameLatent ==
  model = "NextFrameStochasticTwoFrames" =>
    /\ \A t \in 1..Len(latent_means) :
         latent_means[t].frames = << Image(t - 1), Image(t) >>
    /\ Len(latent_means) = Len(gen_images)
    /\ ConstructModelDone => Len(latent_means) = NumFrames - 1

AllNone(state) == \A i \in 1..Len(state) : state[i].k = "None"
AllInitialized(state) == \A i \in 1..Len(state) : state[i].k # "None"
WrittenOnce(before, after) ==
  /\ Len(after) = Len(before)
  /\ \A i \in 1..Len(before) : Writes(after[i]) = Writes(before[i]) + 1

(* What C17 says of every step whatever the reward tower does: the slot    *)
(* counts, the uninitialized lists before the first step, and the main     *)
(* tower writing each of its 7 slots exactly once.                         *)
StateShape ==
  /\ Len(prev_outputs.lstm_states) = 7
  /\ Len(prev_outputs.reward_lstm_states) = 5
  /\ Len(prev_outputs'.lstm_states) = 7
  /\ Len(prev_outputs'.reward_lstm_states) = 5
  /\ Len(gen_images) = 0 =>
       AllNone(prev_outputs.lstm_states) /\ AllNone(prev_outputs.reward_lstm_states)
  /\ AllInitialized(prev_outputs'.lstm_states)
  /\ WrittenOnce(prev_outputs.lstm_states, prev_outputs'.lstm_states)

(* C17, as claimed: at every step the main tower's state has exactly 7     *)
(* slots and the reward tower's state exactly 5; all slots are None before *)
(* the first step and every slot is initialized after each step; a call of *)
(* the main tower writes each of its 7 slots exactly once, a call of the   *)
(* reward tower each of its 5 slots exactly once, and neither writes to    *)
(* the other's state.                                                      *)
C17_StateSlots ==
  [][StepReturned =>
       /\ StateShape
       /\ AllInitialized(prev_outputs'.reward_lstm_states)
       /\ hparams.reward_prediction =>
            WrittenOnce(prev_outputs.reward_lstm_states,
                        prev_outputs'.reward_lstm_states)]_vars

(* C17, amended: the slots of the reward tower's state are initialized     *)
(* after each step when reward_prediction is enabled; when it is disabled  *)
(* the reward tower is never called and its 5 slots stay None.             *)
C17_StateSlotsAmended ==
  [][StepReturned =>
       /\ StateShape
       /\ IF hparams.reward_prediction
          THEN /\ AllInitialized(prev_outputs'.reward_lstm_states)
               /\ WrittenOnce(prev_outputs.reward_lstm_states,
                              prev_outputs'.reward_lstm_states)
          ELSE /\ AllNone(prev_outputs'.reward_lstm_states)
               /\ prev_outputs'.reward_lstm_states =
                    prev_outputs.reward_lstm_states]_vars

(* The state after a scan iteration with the reward tower enabled *)
C17_Witness ==
  /\ model = "NextFrameStochastic"
  /\ call.k = "call"
  /\ pc = "scan"
  /\ call.time_step = 1
  /\ hparams.reward_prediction
  /\ \A i \in 1..5 : Writes(prev_outputs.reward_lstm_states[i]) = 2

(* C18, as claimed: with reward_prediction disabled the reward a step      *)
(* returns is the reward scheduled sampling selected for it; in            *)
(* non-training mode every generated reward of a step with                 *)
(* time_step >= context_frames then equals the ground-truth reward of      *)
(* frame context_frames - 1, in both drivers, for every context_frames.    *)
C18_RewardPassThrough ==
  ~hparams.reward_prediction =>
    /\ (call.k = "call" /\ pc # "ValueError_DNA") =>
         prev_outputs.reward = call.input_reward
    /\ ~is_training =>
         \A t \in 1..Len(gen_rewards) :
           (t - 1 >= context_frames) =>
             gen_rewards[t] = ImageAt(all_rewards, context_frames - 1)

(* C20, as claimed: in the scan variant every invocation of                *)
(* process_single_frame, the first one and every one made by the scan,     *)
(* binds cur_image to the ground-truth frame, cur_reward to the            *)
(* ground-truth reward and action to the action of its timestep.           *)
C20_ScanInputBinding ==
  (model = "NextFrameStochastic" /\ call.k = "call") =>
    /\ call.cur_image = ImageAt(all_frames, call.time_step)
    /\ call.cur_reward = ImageAt(all_rewards, call.time_step)
    /\ call.action = ImageAt(all_actions, call.time_step)

Covers(a, b) == a[1] >= b[1] /\ a[2] >= b[2]

(* C19, as claimed: for every frame height and width >= 1, odd sizes       *)
(* included, each upsampled tensor is at least as large as the skip it is  *)
(* joined with and is cut to exactly that skip's shape, the tower's output *)
(* and mask have exactly the frame's height and width, and no shape        *)
(* mismatch error occurs.                                                  *)
C19_ShapesAgree ==
  tower.k = "shapes" =>
    /\ tower.pc \in {"upsample2", "upsample3", "done"} =>
         Covers(tower.up1, tower.enc1) /\ tower.hidden6 = tower.enc1
    /\ tower.pc \in {"upsample3", "done"} =>
         Covers(tower.up2, tower.enc0) /\ tower.hidden7 = tower.enc0
    /\ tower.pc # "ShapeError"
    /\ tower.pc = "done" =>
         /\ tower.enc6 = tower.frame
         /\ tower.masks = tower.frame
         /\ tower.output = tower.frame

(* C21, as claimed: the scan variant's construct_model completes for both  *)
(* values of stochastic_model; with stochastic_model = False it runs the   *)
(* towers without a latent and returns the generated frames and rewards    *)
(* without raising, and the loss that follows is a defined value.          *)
C21_CompletesWithoutLatent ==
  model = "NextFrameStochastic" =>
    /\ pc # "NameError"
    /\ (ConstructModelDone /\ pc \in {"schedule", "loss", "done"}) =>
         Len(gen_images) = NumFrames - 1
    /\ pc = "done" => IsFinite(extra_loss)

(* C22, as claimed: for every configuration accepted by the linear_anneal  *)
(* check, anneal_end = num_iterations_2nd_stage included, and every global *)
(* step, beta is a finite value within [0, latent_loss_multiplier].        *)
C22_BetaFiniteInRange ==
  (pc \in {"loss", "done"} /\ hparams.latent_loss_multiplier_schedule = "linear_anneal") =>
    /\ IsFinite(beta)
    /\ RLeq(Zero, beta)
    /\ RLeq(beta, Int2Rat(hparams.latent_loss_multiplier))

(* The ground-truth frames a latent sample is computed from: none for no  *)
(* latent and for the (zero, zero) pair, whose sample is the noise alone.  *)
LatentFrames(z) ==
  IF z.k = "latent" /\ z.mean.k # "zeros"
  THEN {z.mean.frames[i][e].t : i \in 1..Len(z.mean.frames), e \in Batch}
  ELSE {}

RECURSIVE FramesIn(_)
(* The indices of the ground-truth frames the value x of one example is    *)
(* computed from, through the towers' inputs and the latent.               *)
FramesIn(x) ==
  IF x.k = "image" THEN {x.t}
  ELSE IF x.k \in {"pred_image", "pred_reward"}
  THEN FramesIn(x.image) \cup FramesIn(x.reward) \cup FramesIn(x.action)
         \cup LatentFrames(x.latent)
  ELSE IF x.k \in {"enc", "skips"} THEN FramesIn(x.image)
  ELSE IF x.k \in {"concat", "h_pred", "mu", "logvar"}
  THEN UNION {FramesIn(x.inputs[j]) : j \in 1..Len(x.inputs)}
  ELSE IF x.k = "posterior_sample"
  THEN FramesIn(x.z) \cup FramesIn(x.mu) \cup FramesIn(x.logvar)
  ELSE IF x.k = "x_pred" THEN FramesIn(x.h_pred) \cup FramesIn(x.skips)
  ELSE {}

ContextOnly(tensor) ==
  \A e \in Batch : FramesIn(tensor[e]) \subseteq 0..(context_frames - 1)

(* C23: in non-training mode, in the scan and the two-frame variant, every *)
(* generated frame and every input of the towers is computed from context  *)
(* frames (index < context_frames), actions, rewards and noise only: no    *)
(* ground-truth frame with index >= context_frames reaches them.           *)
C23_TargetFramesUnused ==
  ~is_training =>
    /\ \A t \in 1..Len(gen_images) : ContextOnly(gen_images[t])
    /\ \A t \in 1..Len(gen_rewards) : ContextOnly(gen_rewards[t])
    /\ call.k = "call" =>
         ContextOnly(call.input_image) /\ ContextOnly(call.input_reward)

C23_Witness ==
  /\ ~is_training
  /\ hparams.stochastic_model
  /\ call.k = "call"
  /\ call.time_step >= context_frames
  /\ Len(gen_images) = call.time_step + 1
  /\ Len(gen_images) >= 2
  /\ C23_TargetFramesUnused

(***************************************************************************)
(* NextFrameStochasticEmily.construct_model: all frames are encoded, the   *)
(* prediction loop feeds the predictor with the encoding of the previous   *)
(* frame and a latent, the decoding loop decodes every predicted encoding. *)
(* The run is the record tower, k = "emily".                               *)
(***************************************************************************)
MaxRnnLayers == 2

(* encoder(inputs, nout): the encoding net51 and the skips of one frame *)
encoder(image) ==
  [enc |-> [e \in Batch |-> [k |-> "enc", image |-> image[e]]],
   skips |-> [e \in Batch |-> [k |-> "skips", image |-> image[e]]]]

(* decoder(inputs, skips, nout) *)
decoder(h_pred, skips) ==
  [e \in Batch |-> [k |-> "x_pred", h_pred |-> h_pred[e], skips |-> skips[e]]]

(* The loop of stacked_lstm and lstm_gaussian: every layer's state is      *)
(* replaced by the state after one more input; a state is the sequence of  *)
(* the inputs its layer has been through.                                  *)
lstm_layers(inputs, states) ==
  [l \in 1..Len(states) |->
     [k |-> "lstm",
      inputs |-> IF states[l].k = "None" THEN << inputs >>
                 ELSE Append(states[l].inputs, inputs)]]

(* What the last layer hands to the output embedding, for one example *)
LayerOutput(states, e) ==
  LET seen == states[Len(states)].inputs
  IN [j \in 1..Len(seen) |-> seen[j][e]]

(* stacked_lstm(inputs, states, hidden_size, output_size, nlayers) *)
stacked_lstm(inputs, states) ==
  LET new == lstm_layers(inputs, states)
  IN [net |-> [e \in Batch |-> [k |-> "h_pred", inputs |-> LayerOutput(new, e)]],
      states |-> new]

(* lstm_gaussian(inputs, states, hidden_size, output_size, nlayers) *)
lstm_gaussian(inputs, states) ==
  LET new == lstm_layers(inputs, states)
  IN [mu |-> [e \in Batch |-> [k |-> "mu", inputs |-> LayerOutput(new, e)]],
      logvar |-> [e \in Batch |-> [k |-> "logvar", inputs |-> LayerOutput(new, e)]],
      states |-> new]

(* h_current = enc_images[i-1] *)
h_current(enc_images, i) == ImageAt(enc_images, i - 1)

(* One iteration of the prediction loop, i in 1..seq_len-1 *)
emily_predict(t, i) ==
  LET cur == h_current(t.enc_images, i)
      h_target == ImageAt(t.enc_images, i)
      noise == Tensor([k |-> "noise", i |-> i])
      zeros == Tensor([k |-> "zeros"])
      post == lstm_gaussian(h_target, t.posterior_states)
      mu == IF is_training THEN post.mu ELSE zeros
      logvar == IF is_training THEN post.logvar ELSE zeros
      z == IF is_training
           THEN [e \in Batch |->
                   [k |-> "posterior_sample", z |-> noise[e],
                    mu |-> mu[e], logvar |-> logvar[e]]]
           ELSE noise
      concat == [e \in Batch |-> [k |-> "concat", inputs |-> << cur[e], z[e] >>]]
      pred == stacked_lstm(concat, t.predictor_states)
  IN [t EXCEPT !.posterior_states = IF is_training THEN post.states ELSE @,
               !.predictor_states = pred.states,
               !.pred_enc = Append(@, pred.net),
               !.pred_mu = Append(@, mu),
               !.pred_logvar = Append(@, logvar)]

(* skip_index = min(context_frames-1, i) *)
skip_index(i) == Min(context_frames - 1, i)

EmilyHParams ==
  {[g EXCEPT !.mode = m, !.video_num_input_frames = i,
             !.video_num_target_frames = o] :
     g \in LatentHParams, m \in Modes, i \in 1..MaxInputFrames,
     o \in 1..MaxTargetFrames}

InitEmily ==
  /\ InitModel({"NextFrameStochasticEmily"}, EmilyHParams, {1})
  /\ global_step = [present |-> FALSE, value |-> 0]
  /\ \E predictor_rnn_layers \in 1..MaxRnnLayers,
        posterior_rnn_layers \in 1..MaxRnnLayers :
       tower = [k |-> "emily", pc |-> "encoding", i |-> 0,
                fake_reward_prediction |-> all_rewards,
                predictor_states |-> [l \in 1..predictor_rnn_layers |-> None],
                posterior_states |-> [l \in 1..posterior_rnn_layers |-> None],
                enc_images |-> << >>, enc_skips |-> << >>,
                pred_enc |-> << >>, pred_mu |-> << >>, pred_logvar |-> << >>,
                skip_indices |-> << >>, gen_images |-> << >>]

(* Encoding: one iteration of the loop over the unstacked images *)
EmilyEncode ==
  /\ tower.k = "emily"
  /\ tower.pc = "encoding"
  /\ LET r == encoder(ImageAt(all_frames, tower.i))
         last == tower.i + 1 = NumFrames
     IN tower' = [tower EXCEPT !.enc_images = Append(@, r.enc),
                               !.enc_skips = Append(@, r.skips),
                               !.i = IF last THEN 1 ELSE @ + 1,
                               !.pc = IF last THEN "prediction" ELSE @]
  /\ UNCHANGED bodyVars

(* Prediction: one iteration of for i in range(1, seq_len) *)
EmilyPredict ==
  /\ tower.k = "emily"
  /\ tower.pc = "prediction"
  /\ LET t == emily_predict(tower, tower.i)
         last == tower.i + 1 = NumFrames
     IN tower' = [t EXCEPT !.i = IF last THEN 0 ELSE @ + 1,
                           !.pc = IF last THEN "decoding" ELSE @]
  /\ UNCHANGED bodyVars

(* Decoding: one iteration of for i in range(seq_len-1) *)
EmilyDecode ==
  /\ tower.k = "emily"
  /\ tower.pc = "decoding"
  /\ tower.i < NumFrames - 1
  /\ LET x_pred == decoder(ImageAt(tower.pred_enc, tower.i),
                           ImageAt(tower.enc_skips, skip_index(tower.i)))
     IN tower' = [tower EXCEPT !.gen_images = Append(@, x_pred),
                               !.skip_indices = Append(@, skip_index(tower.i)),
                               !.i = @ + 1]
  /\ UNCHANGED bodyVars

(* return gen_images, fake_reward_prediction, pred_mu, pred_logvar *)
EmilyReturn ==
  /\ tower.k = "emily"
  /\ tower.pc = "decoding"
  /\ tower.i >= NumFrames - 1
  /\ tower' = [tower EXCEPT !.pc = "returned"]
  /\ UNCHANGED bodyVars

NextEmily == EmilyEncode \/ EmilyPredict \/ EmilyDecode \/ EmilyReturn

SpecEmily == InitEmily /\ [][NextEmily]_vars

(* C24, as claimed: in non-training mode decoding step i uses the encoder  *)
(* skip connections of frame min(context_frames - 1, i) only, and every    *)
(* generated frame is computed from context frames and noise only: no      *)
(* ground-truth frame with index >= context_frames reaches it.             *)
C24_EmilyTargetFramesUnused ==
  (tower.k = "emily" /\ ~is_training) =>
    \A j \in 1..Len(tower.gen_images) :
      /\ tower.skip_indices[j] = Min(context_frames - 1, j - 1)
      /\ \A e \in Batch :
           /\ tower.gen_images[j][e].skips
                = [k |-> "skips", image |-> ImageAt(all_frames, tower.skip_indices[j])[e]]
           /\ FramesIn(tower.gen_images[j][e].skips) \subseteq 0..(context_frames - 1)
      /\ ContextOnly(tower.gen_images[j])

====
